---- MODULE Spec2Model ----
(***************************************************************************)
(* A model of gather-files (gf): target resolution (src/src/main.rs), the  *)
(* Path Collector, the Preset Collector, README promotion and the renderer *)
(* (src/src/gather.rs), and the preset lookup (src/src/config.rs).         *)
(*                                                                         *)
(* Strings are sequences of Unicode scalar values (integers); a path is a  *)
(* sequence of components (names), as std::path::Path compares and strips  *)
(* paths component by component.  The filesystem is a function from the    *)
(* paths of its regular files to their contents; a directory exists when a *)
(* file lies below it.                                                     *)
(***************************************************************************)
EXTENDS Integers, Sequences, FiniteSets, TLC

VARIABLES fs, call, ret, pc, files, file_idx, output, char_count, sink, outcome

vars == <<fs, call, ret, pc, files, file_idx, output, char_count, sink, outcome>>

(***************************************************************************)
(* Bounds of the model.                                                    *)
(***************************************************************************)
\* the largest number of regular files in a modelled tree
MaxFiles == 3

(***************************************************************************)
(* Strings.                                                                *)
(***************************************************************************)
\* the code points of the characters the modelled names and texts use
AsciiTable ==
    << <<"#", 35>>, <<"*", 42>>, <<"-", 45>>, <<".", 46>>, <<"/", 47>>,
       <<"A", 65>>, <<"D", 68>>, <<"E", 69>>, <<"M", 77>>, <<"R", 82>>,
       <<"_", 95>>, <<"a", 97>>, <<"b", 98>>, <<"c", 99>>, <<"d", 100>>,
       <<"e", 101>>, <<"g", 103>>, <<"i", 105>>, <<"j", 106>>, <<"k", 107>>,
       <<"l", 108>>, <<"m", 109>>, <<"n", 110>>, <<"o", 111>>, <<"p", 112>>,
       <<"r", 114>>, <<"s", 115>>, <<"t", 116>>, <<"u", 117>>, <<"x", 120>>,
       <<" ", 32>>, <<"\n", 10>>, <<"!", 33>>, <<"[", 91>>, <<"]", 93>>,
       <<"+", 43>>, <<"0", 48>>, <<"1", 49>>, <<"2", 50>>, <<"3", 51>>, <<"4", 52>>,
       <<"5", 53>>, <<"6", 54>>, <<"7", 55>>, <<"8", 56>>, <<"9", 57>> >>

Ord(c) == AsciiTable[CHOOSE i \in 1..Len(AsciiTable) : AsciiTable[i][1] = c][2]

\* the string written as a tuple of one-character strings
Str(s) == [i \in 1..Len(s) |-> Ord(s[i])]

Range(s) == {s[i] : i \in 1..Len(s)}

\* s < t in lexicographic order of the elements' integer values: the order of
\* str / OsStr / [u8] (the strings of the model are ASCII where it is used)
BytesLess(s, t) ==
    \E k \in 0..Len(s) :
        /\ k <= Len(t)
        /\ \A i \in 1..k : s[i] = t[i]
        /\ IF k = Len(s) THEN k < Len(t)
           ELSE k < Len(t) /\ s[k + 1] < t[k + 1]

StartsWith(s, prefix) ==
    /\ Len(prefix) <= Len(s)
    /\ \A i \in 1..Len(prefix) : s[i] = prefix[i]

\* u8::to_ascii_lowercase on every character
ToAsciiLowercase(s) ==
    [i \in 1..Len(s) |-> IF s[i] >= 65 /\ s[i] <= 90 THEN s[i] + 32 ELSE s[i]]

SLASH == Ord("/")

(***************************************************************************)
(* Paths: sequences of components.                                         *)
(***************************************************************************)
\* Path::join of a relative path: "." components vanish (Path::components)
DOT == Str(<<".">>)

Join(base, rel) == base \o SelectSeq(rel, LAMBDA c : c # DOT)

\* a path as the user writes it: relative, or absolute (from the root "/")
Rel(path) == [absolute |-> FALSE, path |-> path]

Abs(path) == [absolute |-> TRUE, path |-> path]

IsPrefix(base, path) ==
    /\ Len(base) <= Len(path)
    /\ \A i \in 1..Len(base) : path[i] = base[i]

\* Path::strip_prefix, for a path that has the prefix
StripPrefix(base, path) == SubSeq(path, Len(base) + 1, Len(path))

\* Path::file_name
FileName(path) == path[Len(path)]

\* the path as one string, components joined by '/'
RECURSIVE PathString(_)
PathString(path) ==
    IF Len(path) = 0 THEN <<>>
    ELSE IF Len(path) = 1 THEN path[1]
    ELSE path[1] \o <<SLASH>> \o PathString(Tail(path))

\* PathLess as a comparison of the whole path strings, byte by byte
PathLessByString(p, q) == BytesLess(PathString(p), PathString(q))

\* impl Ord for Path: the components compared in turn, each as a byte string
PathLess(p, q) ==
    \E k \in 0..Len(p) :
        /\ k <= Len(q)
        /\ \A i \in 1..k : p[i] = q[i]
        /\ IF k = Len(p) THEN k < Len(q)
           ELSE k < Len(q) /\ BytesLess(p[k + 1], q[k + 1])

(***************************************************************************)
(* The names and trees of the model.                                       *)
(***************************************************************************)
README_MD == Str(<<"R", "E", "A", "D", "M", "E", ".", "m", "d">>)
README_UP == Str(<<"R", "E", "A", "D", "M", "E">>)
README_TXT == Str(<<"r", "e", "a", "d", "m", "e", ".", "t", "x", "t">>)
A_TXT == Str(<<"a", ".", "t", "x", "t">>)
A_DIR == Str(<<"a">>)
B_RS == Str(<<"b", ".", "r", "s">>)
SRC == Str(<<"s", "r", "c">>)
DOCS == Str(<<"d", "o", "c", "s">>)
MAIN_RS == Str(<<"m", "a", "i", "n", ".", "r", "s">>)
LIB_RS == Str(<<"l", "i", "b", ".", "r", "s">>)
EXTRA_TXT == Str(<<"e", "x", "t", "r", "a", ".", "t", "x", "t">>)
IGNORED_RS == Str(<<"i", "g", "n", "o", "r", "e", "d", ".", "r", "s">>)
PKG == Str(<<"p", "k", "g">>)
INDEX_JS == Str(<<"i", "n", "d", "e", "x", ".", "j", "s">>)
DOT_GIT == Str(<<".", "g", "i", "t">>)
TARGET == Str(<<"t", "a", "r", "g", "e", "t">>)
NODE_MODULES ==
    Str(<<"n", "o", "d", "e", "_", "m", "o", "d", "u", "l", "e", "s">>)
REPO == Str(<<"r", "e", "p", "o">>)
MISSING == Str(<<"m", "i", "s", "s", "i", "n", "g">>)

\* const IGNORED_DIRS
IGNORED_DIRS == <<DOT_GIT, TARGET, NODE_MODULES>>

\* the repository root (find_repo_root, or the current directory)
RepoRoot == <<REPO>>

\* the files a tree may hold, relative to the repository root; "target" is a
\* directory in some trees and a regular file in others
RelUniverse ==
    { <<README_MD>>, <<A_TXT>>, <<A_DIR, B_RS>>,
      <<SRC, MAIN_RS>>, <<SRC, LIB_RS>>, <<SRC, EXTRA_TXT>>,
      <<SRC, README_TXT>>, <<DOCS, README_UP>>,
      <<TARGET, IGNORED_RS>>, <<TARGET>>,
      <<NODE_MODULES, PKG, INDEX_JS>>, <<SRC, DOT_GIT, MAIN_RS>> }

Universe == {Join(RepoRoot, rel) : rel \in RelUniverse}

\* no regular file lies below another regular file
Consistent(tree) ==
    \A f \in tree, g \in tree : f # g => ~IsPrefix(f, g)

Trees ==
    {t \in SUBSET Universe : Cardinality(t) <= MaxFiles /\ Consistent(t)}

\* the contents of a file: text (valid UTF-8, a sequence of scalar values)
\* or bytes that are no UTF-8
Text(t) == [utf8 |-> TRUE, text |-> t]

NotUtf8 == [utf8 |-> FALSE]

\* the contents of the files of a tree that is only walked, never read
NoText == Text(<<>>)

(***************************************************************************)
(* The filesystem: fs maps the path of every regular file to its contents. *)
(***************************************************************************)
IsFile(f, path) == path \in DOMAIN f

IsDir(f, path) ==
    \/ path = RepoRoot
    \/ \E g \in DOMAIN f : IsPrefix(path, g) /\ g # path

\* Path::exists
Exists(f, path) == IsFile(f, path) \/ IsDir(f, path)

\* the entries of a directory (fs::read_dir)
Children(f, dir) ==
    {SubSeq(g, 1, Len(dir) + 1) : g \in {h \in DOMAIN f : IsPrefix(dir, h) /\ h # dir}}

\* the orders in which a set can be enumerated
Enumerations(S) ==
    {q \in [1..Cardinality(S) -> S] : \A i, j \in 1..Cardinality(S) : q[i] = q[j] => i = j}

(***************************************************************************)
(* README promotion (gather.rs).                                           *)
(***************************************************************************)
README_PREFIX == Str(<<"r", "e", "a", "d", "m", "e">>)

is_readme(path) ==
    /\ Len(path) > 0
    /\ StartsWith(ToAsciiLowercase(FileName(path)), README_PREFIX)

is_direct_child(base, path) ==
    /\ IsPrefix(base, path)
    /\ Len(StripPrefix(base, path)) = 1

\* None of Option<usize>; indices are those of the code plus one
None == 0

\* the loop of find_preferred_readme, from index idx on
RECURSIVE FindLoop(_, _, _, _)
FindLoop(base, fl, idx, fallback) ==
    IF idx > Len(fl) THEN fallback
    ELSE IF ~is_readme(fl[idx]) THEN FindLoop(base, fl, idx + 1, fallback)
    ELSE IF is_direct_child(base, fl[idx]) THEN idx
    ELSE FindLoop(base, fl, idx + 1, IF fallback = None THEN idx ELSE fallback)

\* find_preferred_readme without the preference for a direct child
RECURSIVE FirstReadme(_, _)
FirstReadme(fl, idx) ==
    IF idx > Len(fl) THEN None
    ELSE IF is_readme(fl[idx]) THEN idx
    ELSE FirstReadme(fl, idx + 1)

find_first_readme(base, fl) == FirstReadme(fl, 1)

find_preferred_readme(base, fl) == FindLoop(base, fl, 1, None)

\* Vec::remove(idx)
Remove(fl, idx) == SubSeq(fl, 1, idx - 1) \o SubSeq(fl, idx + 1, Len(fl))

promote_readme(base, fl) ==
    IF Len(fl) <= 1 THEN fl
    ELSE LET idx == find_preferred_readme(base, fl)
         IN  IF idx # None /\ idx # 1
             THEN <<fl[idx]>> \o Remove(fl, idx)
             ELSE fl

(***************************************************************************)
(* The Path Collector (gather.rs).                                         *)
(***************************************************************************)
is_ignored_dir(f, entry) ==
    /\ IsDir(f, entry)
    /\ FileName(entry) \in Range(IGNORED_DIRS)

\* WalkDir::new(path).into_iter().filter_entry(|e| !is_ignored_dir(e)), kept
\* to the regular files: the predicate is asked of every entry, the root
\* entry first, and an entry it rejects is neither yielded nor descended into
RECURSIVE WalkFiltered(_, _)
WalkFiltered(f, entry) ==
    IF is_ignored_dir(f, entry) THEN {}
    ELSE IF IsFile(f, entry) THEN {entry}
    ELSE UNION {WalkFiltered(f, c) : c \in Children(f, entry)}

\* Vec<PathBuf>::sort_unstable: ascending in the order of Path
RECURSIVE InsertSorted(_, _)
InsertSorted(sorted, p) ==
    IF sorted = <<>> THEN <<p>>
    ELSE IF PathLess(p, Head(sorted)) THEN <<p>> \o sorted
    ELSE <<Head(sorted)>> \o InsertSorted(Tail(sorted), p)

RECURSIVE SortPaths(_)
SortPaths(fl) ==
    IF fl = <<>> THEN <<>>
    ELSE InsertSorted(SortPaths(SubSeq(fl, 1, Len(fl) - 1)), fl[Len(fl)])

Ok(fl) == [ok |-> TRUE, files |-> fl]

Err(kind) == [ok |-> FALSE, error |-> kind]

\* collect_from_path; walked is the list of files in the order the
\* filesystem enumerated them
collect_from_path(f, path, walked) ==
    IF ~Exists(f, path) THEN Err("TargetNotFound")
    ELSE IF IsFile(f, path) THEN Ok(<<path>>)
    ELSE Ok(promote_readme(path, SortPaths(walked)))

(***************************************************************************)
(* Globs.  An include pattern is compiled by globwalk into an override of  *)
(* the ignore crate (gitignore rules, '*' stops at '/'); an exclude        *)
(* pattern is a plain globset::Glob ('*' crosses '/').                     *)
(***************************************************************************)
STAR == Ord("*")
BANG == Ord("!")
LBRACKET == Ord("[")
RBRACKET == Ord("]")
DOUBLESTAR_SLASH == Str(<<"*", "*", "/">>)
SLASH_DOUBLESTAR == Str(<<"/", "*", "*">>)
SLASH_DOUBLESTAR_SLASH == Str(<<"/", "*", "*", "/">>)
SLASH_STAR == Str(<<"/", "*">>)

\* text has the string t at position i
HasAt(text, i, t) ==
    /\ i + Len(t) - 1 <= Len(text)
    /\ \A k \in 1..Len(t) : text[i + k - 1] = t[k]

\* Glob::new fails on a character class that is never closed
ValidGlob(pat) ==
    \A i \in 1..Len(pat) :
        pat[i] = LBRACKET => \E j \in (i + 2)..Len(pat) : pat[j] = RBRACKET

\* globset's matcher: pat from position i against text from position j.
\* A leading "**/" is (?:/?|.*/), an inner "/**/" is (?:/|/.*/), a trailing
\* "/**" is /.*, '*' is [^/]* with literal_separator and .* without it.
RECURSIVE GlobMatch(_, _, _, _, _)
GlobMatch(pat, i, text, j, literal_separator) ==
    IF i > Len(pat) THEN j > Len(text)
    ELSE IF i = 1 /\ HasAt(pat, 1, DOUBLESTAR_SLASH) THEN
        \/ GlobMatch(pat, 4, text, j, literal_separator)
        \/ \E k \in j..Len(text) :
              text[k] = SLASH /\ GlobMatch(pat, 4, text, k + 1, literal_separator)
    ELSE IF HasAt(pat, i, SLASH_DOUBLESTAR_SLASH) THEN
        /\ j <= Len(text)
        /\ text[j] = SLASH
        /\ \/ GlobMatch(pat, i + 4, text, j + 1, literal_separator)
           \/ \E k \in (j + 1)..Len(text) :
                 text[k] = SLASH /\ GlobMatch(pat, i + 4, text, k + 1, literal_separator)
    ELSE IF HasAt(pat, i, SLASH_DOUBLESTAR) /\ i + 2 = Len(pat) THEN
        j <= Len(text) /\ text[j] = SLASH
    ELSE IF pat[i] = STAR THEN
        \E k \in j..(Len(text) + 1) :
            /\ literal_separator => \A m \in j..(k - 1) : text[m] # SLASH
            /\ GlobMatch(pat, i + 1, text, k, literal_separator)
    ELSE
        /\ j <= Len(text)
        /\ text[j] = pat[i]
        /\ GlobMatch(pat, i + 1, text, j + 1, literal_separator)

\* one line of an override (ignore::gitignore::GitignoreBuilder::add_line,
\* inverted by ignore::overrides): a leading '!' makes it an ignore glob, a
\* leading '/' anchors it, a trailing '/' restricts it to directories, a
\* pattern without '/' matches at any depth, and "x/**" means "x/**/*"
Negated(line) == Len(line) > 0 /\ line[1] = BANG

Unbang(line) == IF Negated(line) THEN Tail(line) ELSE line

Anchored(line) == Len(line) > 0 /\ line[1] = SLASH

Unanchor(line) == IF Anchored(line) THEN Tail(line) ELSE line

OnlyDir(line) == Len(line) > 0 /\ line[Len(line)] = SLASH

Undir(line) == IF OnlyDir(line) THEN SubSeq(line, 1, Len(line) - 1) ELSE line

AnyDepth(line, absolute) ==
    IF ~absolute /\ SLASH \notin Range(line) /\ ~HasAt(line, 1, DOUBLESTAR_SLASH)
    THEN DOUBLESTAR_SLASH \o line ELSE line

Everything(line) ==
    IF Len(line) >= 3 /\ HasAt(line, Len(line) - 2, SLASH_DOUBLESTAR)
    THEN line \o SLASH_STAR ELSE line

OverrideGlob(line) ==
    [negated |-> Negated(line),
     only_dir |-> OnlyDir(Unanchor(Unbang(line))),
     glob |-> Everything(AnyDepth(Undir(Unanchor(Unbang(line))), Anchored(Unbang(line))))]

\* whether one glob of the override matches the path
GlobApplies(g, rel, is_dir) ==
    /\ g.only_dir => is_dir
    /\ GlobMatch(g.glob, 1, PathString(rel), 1, TRUE)

\* Override::matched: the last glob that matches decides; a file no glob
\* matches is ignored, as the override holds a whitelist glob
RECURSIVE OverrideMatched(_, _, _, _)
OverrideMatched(patterns, k, rel, is_dir) ==
    IF k = 0 THEN (IF is_dir THEN "none" ELSE "ignore")
    ELSE IF GlobApplies(OverrideGlob(patterns[k]), rel, is_dir)
    THEN (IF Negated(patterns[k]) THEN "ignore" ELSE "whitelist")
    ELSE OverrideMatched(patterns, k - 1, rel, is_dir)

\* GlobWalker's iteration from an entry: the entries the override
\* whitelists, never entering a directory it ignores; the base itself is
\* never matched
RECURSIVE GlobWalk(_, _, _, _)
GlobVisit(f, base, patterns, entry, is_dir, m) ==
    IF is_dir /\ m = "ignore" THEN {}
    ELSE (IF m = "whitelist" THEN {entry} ELSE {})
         \cup (IF is_dir
               THEN UNION {GlobWalk(f, base, patterns, c) : c \in Children(f, entry)}
               ELSE {})

GlobWalk(f, base, patterns, entry) ==
    GlobVisit(f, base, patterns, entry, IsDir(f, entry),
              IF entry = base THEN "none"
              ELSE OverrideMatched(patterns, Len(patterns), StripPrefix(base, entry),
                                   IsDir(f, entry)))

(***************************************************************************)
(* The Preset Collector (gather.rs).  A preset is a record                 *)
(* [base, include, exclude]; base is NoBase or SomeBase of a path.         *)
(***************************************************************************)
NoBase == <<>>

SomeBase(path) == <<path>>

resolve_base(preset, repo_root) ==
    IF preset.base = NoBase THEN repo_root
    ELSE IF preset.base[1].absolute THEN preset.base[1].path
    ELSE Join(repo_root, preset.base[1].path)

\* ignored_dir_globs with no ignore pattern at all
ignored_dir_globs_none == <<>>

\* format!("!**/{dir}/") for every ignored directory name
ignored_dir_globs ==
    [i \in 1..Len(IGNORED_DIRS) |->
        <<BANG>> \o DOUBLESTAR_SLASH \o IGNORED_DIRS[i] \o <<SLASH>>]

build_preset_patterns(pattern, ignored) == <<pattern>> \o ignored

\* build_globset: None for an empty list, else the set of the globs
build_globset(patterns) == patterns

\* matches_exclude on the full path instead of the path relative to the base
matches_exclude_full_path(set, base, path) ==
    IF set = <<>> THEN FALSE
    ELSE \E k \in 1..Len(set) : GlobMatch(set[k], 1, PathString(path), 1, FALSE)

\* matches_exclude: GlobSet::is_match on the path relative to the base
matches_exclude(set, base, path) ==
    IF set = <<>> THEN FALSE
    ELSE LET candidate == IF IsPrefix(base, path) THEN StripPrefix(base, path) ELSE path
         IN  \E k \in 1..Len(set) :
                GlobMatch(set[k], 1, PathString(candidate), 1, FALSE)

\* some enumeration of a set
RECURSIVE AnyOrder(_)
AnyOrder(S) ==
    IF S = {} THEN <<>>
    ELSE LET x == CHOOSE y \in S : TRUE
         IN  <<x>> \o AnyOrder(S \ {x})

\* collect_pattern_matches without the exclude test
collect_pattern_matches_unfiltered(f, pattern, base, exclude, ignored_patterns) ==
    LET patterns == build_preset_patterns(pattern, ignored_patterns)
        entries == GlobWalk(f, base, patterns, base)
    IN  SortPaths(AnyOrder({e \in entries : ~IsDir(f, e)}))

\* collect_pattern_matches, for a pattern that compiles and a base that
\* can be walked
collect_pattern_matches(f, pattern, base, exclude, ignored_patterns) ==
    LET patterns == build_preset_patterns(pattern, ignored_patterns)
        entries == GlobWalk(f, base, patterns, base)
        kept == {e \in entries : ~IsDir(f, e) /\ ~matches_exclude(exclude, base, e)}
    IN  SortPaths(AnyOrder(kept))

\* the paths appended to a plain list, duplicates kept
AppendAll(ordered, paths) == ordered \o paths

\* IndexSet::insert of every path: a path already present keeps its place
RECURSIVE InsertAll(_, _)
InsertAll(ordered, paths) ==
    IF paths = <<>> THEN ordered
    ELSE InsertAll(IF Head(paths) \in Range(ordered) THEN ordered
                   ELSE Append(ordered, Head(paths)),
                   Tail(paths))

ErrAt(kind, pattern, name) ==
    [ok |-> FALSE, error |-> kind, pattern |-> pattern, preset |-> name]

\* the loop of collect_from_preset over the include patterns, from the i-th
RECURSIVE PresetLoop(_, _, _, _, _, _)
PresetStep(f, name, preset, base, i, ordered, pattern_matches) ==
    IF pattern_matches = <<>>
    THEN ErrAt("PatternMatchedNothing", preset.include[i], name)
    ELSE PresetLoop(f, name, preset, base, i + 1, InsertAll(ordered, pattern_matches))

PresetLoop(f, name, preset, base, i, ordered) ==
    IF i > Len(preset.include) THEN Ok(promote_readme(base, ordered))
    ELSE IF ~ValidGlob(preset.include[i])
    THEN ErrAt("InvalidGlobPattern", preset.include[i], name)
    ELSE IF ~Exists(f, base) THEN ErrAt("WalkError", preset.include[i], name)
    ELSE PresetStep(f, name, preset, base, i, ordered,
                    collect_pattern_matches(f, preset.include[i], base,
                        build_globset(preset.exclude), ignored_dir_globs))

collect_from_preset(f, name, preset, repo_root) ==
    IF \E k \in 1..Len(preset.exclude) : ~ValidGlob(preset.exclude[k])
    THEN Err("InvalidGlobPattern")
    ELSE PresetLoop(f, name, preset, resolve_base(preset, repo_root), 1, <<>>)

(***************************************************************************)
(* The renderer (gather.rs).  A text is a sequence of scalar values:       *)
(* chars().count() is its length, len() the length of its UTF-8 encoding.  *)
(***************************************************************************)
LF == Ord("\n")

\* char::len_utf8
Utf8Len(c) ==
    IF c < 128 THEN 1 ELSE IF c < 2048 THEN 2 ELSE IF c < 65536 THEN 3 ELSE 4

\* str::len: the number of bytes
RECURSIVE ByteLen(_)
ByteLen(t) == IF t = <<>> THEN 0 ELSE Utf8Len(Head(t)) + ByteLen(Tail(t))

\* str::chars().count(): the number of scalar values
CharsCount(t) == Len(t)

HEADER_PREFIX == Str(<<"-", "-", "-", "-", "-", "-", "-", "\n", "#", " ">>)
HEADER_SUFFIX == Str(<<"\n", "\n">>)

\* append_file_section with the contents counted in bytes
append_file_section_bytes(out, display, contents) ==
    LET missing == ~(Len(contents) > 0 /\ contents[Len(contents)] = LF)
    IN  [output |-> out \o HEADER_PREFIX \o display \o HEADER_SUFFIX \o contents
                        \o (IF missing THEN <<LF>> ELSE <<>>) \o <<LF>>,
         count |-> ByteLen(HEADER_PREFIX) + CharsCount(display) + ByteLen(HEADER_SUFFIX)
                       + ByteLen(contents) + (IF missing THEN 1 ELSE 0) + 1]

\* append_file_section with a newline pushed after the contents whether or
\* not they end in one
append_file_section_always_newline(out, display, contents) ==
    [output |-> out \o HEADER_PREFIX \o display \o HEADER_SUFFIX \o contents \o <<LF>> \o <<LF>>,
     count |-> ByteLen(HEADER_PREFIX) + CharsCount(display) + ByteLen(HEADER_SUFFIX)
                   + CharsCount(contents) + 2]

\* append_file_section: the output with the section appended, and the count
\* of the section
append_file_section(out, display, contents) ==
    LET missing == ~(Len(contents) > 0 /\ contents[Len(contents)] = LF)
    IN  [output |-> out \o HEADER_PREFIX \o display \o HEADER_SUFFIX \o contents
                        \o (IF missing THEN <<LF>> ELSE <<>>) \o <<LF>>,
         count |-> ByteLen(HEADER_PREFIX) + CharsCount(display) + ByteLen(HEADER_SUFFIX)
                       + CharsCount(contents) + (IF missing THEN 1 ELSE 0) + 1]

\* Path::display of an absolute path
Display(path) == <<SLASH>> \o PathString(path)

display_path(path, root) ==
    IF IsPrefix(root, path)
    THEN (IF StripPrefix(root, path) = <<>> THEN Display(path)
          ELSE PathString(StripPrefix(root, path)))
    ELSE Display(path)

\* fs::read_to_string succeeds on a regular file that holds UTF-8
Readable(f, path) == IsFile(f, path) /\ f[path].utf8

\* the loop of render_files from the i-th file on
RECURSIVE RenderLoop(_, _, _, _, _, _)
RenderLoop(f, fl, root, i, out, count) ==
    IF i > Len(fl) THEN [ok |-> TRUE, text |-> out, count |-> count]
    ELSE IF ~Readable(f, fl[i]) THEN [ok |-> FALSE, error |-> "ReadError", path |-> fl[i]]
    ELSE LET sec == append_file_section(out, display_path(fl[i], root), f[fl[i]].text)
         IN  RenderLoop(f, fl, root, i + 1, sec.output, count + sec.count)

render_files(f, fl, root) == RenderLoop(f, fl, root, 1, <<>>, 0)

(***************************************************************************)
(* Calls of the collectors on a tree.  call records the operation and its  *)
(* inputs, ret what it returned.                                           *)
(***************************************************************************)
NoCall == [op |-> "none"]

\* the variables of a run of the gather command, before the run
IdleRun ==
    /\ pc = "idle"
    /\ files = <<>>
    /\ file_idx = 1
    /\ output = <<>>
    /\ char_count = 0
    /\ sink = <<>>
    /\ outcome = "none"

RunVars == <<pc, files, file_idx, output, char_count, sink, outcome>>

InitWalked ==
    /\ fs \in {[f \in t |-> NoText] : t \in Trees}
    /\ call = NoCall
    /\ ret = NoCall
    /\ IdleRun

\* the targets the Path Collector is called on: the root, directories,
\* among them two with an ignored name, a file and a path that is missing
PathTargets ==
    { RepoRoot, Join(RepoRoot, <<SRC>>), Join(RepoRoot, <<A_DIR>>),
      Join(RepoRoot, <<TARGET>>), Join(RepoRoot, <<SRC, DOT_GIT>>),
      Join(RepoRoot, <<README_MD>>), Join(RepoRoot, <<MISSING>>) }

CollectFromPathCall ==
    /\ call = NoCall
    /\ \E path \in PathTargets :
         \E walked \in Enumerations(WalkFiltered(fs, path)) :
            /\ call' = [op |-> "collect_from_path", path |-> path, walked |-> walked]
            /\ ret' = collect_from_path(fs, path, walked)
    /\ UNCHANGED <<fs, RunVars>>

\* README promotion on any File Set over the tree, in any order
PromoteBases == {RepoRoot, Join(RepoRoot, <<SRC>>)}

PromoteReadmeCall ==
    /\ call = NoCall
    /\ \E base \in PromoteBases, S \in SUBSET (DOMAIN fs) :
         \E fl \in Enumerations(S) :
            /\ call' = [op |-> "promote_readme", base |-> base, files |-> fl]
            /\ ret' = Ok(promote_readme(base, fl))
    /\ UNCHANGED <<fs, RunVars>>

NextPath == CollectFromPathCall \/ PromoteReadmeCall

SpecPath == InitWalked /\ [][NextPath]_vars

(***************************************************************************)
(* Claims about README promotion and the Path Collector (SpecPath).        *)
(***************************************************************************)
\* a README as the specification words it: the file name, lower-cased,
\* begins with "readme"
NamedReadme(path) ==
    LET name == path[Len(path)]
    IN  /\ Len(name) >= Len(README_PREFIX)
        /\ ToAsciiLowercase(SubSeq(name, 1, Len(README_PREFIX))) = README_PREFIX

\* a direct child of the base: no directory component in between
DirectChild(base, path) ==
    /\ Len(path) = Len(base) + 1
    /\ SubSeq(path, 1, Len(base)) = base

ReadmeIndexes(fl) == {i \in 1..Len(fl) : NamedReadme(fl[i])}

DirectReadmeIndexes(base, fl) ==
    {i \in ReadmeIndexes(fl) : DirectChild(base, fl[i])}

MinOf(S) == CHOOSE i \in S : \A j \in S : i <= j

HasReadme(fl) == ReadmeIndexes(fl) # {}

\* C4: promote_readme on a File Set with more than one entry puts a
\* direct-child README of the base, if the set has one, and otherwise the
\* first README in set order, at position 0 and keeps all the other entries
\* in their relative order; with no README or a single entry the set is
\* unchanged; so a File Set that contains a README (also the one the Path
\* Collector returns) has a README at position 0.
C4_PromoteReadme ==
    /\ call.op = "promote_readme" =>
         LET fl == call.files
             out == ret.files
             R == ReadmeIndexes(fl)
             D == DirectReadmeIndexes(call.base, fl)
         IN  /\ IF Len(fl) <= 1 \/ R = {} THEN out = fl
                ELSE \E i \in (IF D # {} THEN D ELSE {MinOf(R)}) :
                        out = <<fl[i]>> \o SubSeq(fl, 1, i - 1) \o SubSeq(fl, i + 1, Len(fl))
             /\ HasReadme(out) => NamedReadme(out[1])
    /\ (call.op = "collect_from_path" /\ ret.ok /\ HasReadme(ret.files))
          => NamedReadme(ret.files[1])

\* C4 witness: a File Set in which a nested README stands before a
\* direct-child README, which promotion moved to the front
C4_Witness ==
    /\ call.op = "promote_readme"
    /\ Len(call.files) >= 3
    /\ DirectReadmeIndexes(call.base, call.files) # {}
    /\ MinOf(ReadmeIndexes(call.files)) \notin DirectReadmeIndexes(call.base, call.files)
    /\ ret.files # call.files
    /\ DirectChild(call.base, ret.files[1])

\* the Path Collector was called on a directory and found no README
PathDirNoReadme ==
    /\ call.op = "collect_from_path"
    /\ IsDir(fs, call.path)
    /\ ret.ok
    /\ ~HasReadme(ret.files)

SameFiles(fl, walked) ==
    /\ Len(fl) = Len(walked)
    /\ Range(fl) = Range(walked)

\* C5 as claimed: with no README the output of collect_from_path is the
\* files in ascending byte order of their full path strings, whatever the
\* enumeration order.
C5_SortedByPathString ==
    PathDirNoReadme =>
        /\ SameFiles(ret.files, call.walked)
        /\ \A i, j \in 1..Len(ret.files) :
              i < j => BytesLess(PathString(ret.files[i]), PathString(ret.files[j]))

\* p < q in the order of Path, stated on the first component that differs
ComponentwiseLess(p, q) ==
    LET n == IF Len(p) < Len(q) THEN Len(p) ELSE Len(q)
        diff == {i \in 1..n : p[i] # q[i]}
    IN  IF diff = {} THEN Len(p) < Len(q)
        ELSE BytesLess(p[MinOf(diff)], q[MinOf(diff)])

\* C5 amended: with no README the output of collect_from_path is the files
\* the walk yielded in ascending order of their paths compared component by
\* component (each component as a byte string, so a/b.rs stands before
\* a.txt), whatever the enumeration order.
C5_SortedByComponents ==
    PathDirNoReadme =>
        /\ SameFiles(ret.files, call.walked)
        /\ \A i, j \in 1..Len(ret.files) :
              i < j => ComponentwiseLess(ret.files[i], ret.files[j])

\* C5 witness: a.txt next to a/b.rs, enumerated in another order than the
\* one returned, where the two orders differ
C5_Witness ==
    /\ PathDirNoReadme
    /\ Join(RepoRoot, <<A_TXT>>) \in Range(ret.files)
    /\ Join(RepoRoot, <<A_DIR, B_RS>>) \in Range(ret.files)
    /\ call.walked # ret.files
    /\ \E i, j \in 1..Len(ret.files) :
          /\ i < j
          /\ BytesLess(PathString(ret.files[j]), PathString(ret.files[i]))

\* the regular files below dir whose path relative to dir has no directory
\* component with an ignored name
UnignoredBelow(f, dir) ==
    {g \in DOMAIN f :
        /\ IsPrefix(dir, g)
        /\ \A k \in (Len(dir) + 1)..(Len(g) - 1) : g[k] \notin Range(IGNORED_DIRS)}

\* C6: for every existing directory target D, collect_from_path(D) returns
\* exactly the regular files below D whose path relative to D has no
\* directory component with an ignored name, also when D's own name is an
\* ignored one.
C6_PrunedRelativeToTarget ==
    (call.op = "collect_from_path" /\ IsDir(fs, call.path)) =>
        /\ ret.ok
        /\ Range(ret.files) = UnignoredBelow(fs, call.path)

(***************************************************************************)
(* Calls of the Preset Collector (SpecPreset).                             *)
(***************************************************************************)
\* the longest include list of a modelled preset
MaxInclude == 2

P_SRC_ALL_RS == Str(<<"s", "r", "c", "/", "*", "*", "/", "*", ".", "r", "s">>)
P_ALL == Str(<<"*", "*", "/", "*">>)
P_ANY_RS == Str(<<"*", ".", "r", "s">>)
P_README_MD == README_MD
P_SRC_LIB_RS == Str(<<"s", "r", "c", "/", "l", "i", "b", ".", "r", "s">>)
P_UNCLOSED == Str(<<"[">>)
RUST == Str(<<"r", "u", "s", "t">>)

IncludePatterns == {P_SRC_ALL_RS, P_ALL, P_ANY_RS, P_README_MD}

ExcludeLists == {<<>>, <<P_SRC_LIB_RS>>, <<P_ANY_RS>>}

Bases == {NoBase, SomeBase(Rel(<<DOT>>)), SomeBase(Rel(<<SRC>>))}

\* the include lists: up to MaxInclude different patterns, in any order
IncludeLists ==
    UNION {Enumerations(S) :
             S \in {T \in SUBSET IncludePatterns : T # {} /\ Cardinality(T) <= MaxInclude}}

Presets ==
    {[base |-> b, include |-> inc, exclude |-> exc] :
        b \in Bases, inc \in IncludeLists, exc \in ExcludeLists}

\* the preset and the tree of tests::collects_files_from_preset
RustPreset ==
    [base |-> SomeBase(Rel(<<DOT>>)), include |-> <<P_SRC_ALL_RS>>, exclude |-> <<P_SRC_LIB_RS>>]

RustTree ==
    {Join(RepoRoot, rel) :
        rel \in {<<README_MD>>, <<SRC, LIB_RS>>, <<SRC, MAIN_RS>>, <<SRC, EXTRA_TXT>>}}

PresetUniverse ==
    {Join(RepoRoot, rel) :
        rel \in { <<README_MD>>, <<A_DIR, B_RS>>,
                  <<SRC, MAIN_RS>>, <<SRC, LIB_RS>>, <<SRC, EXTRA_TXT>>,
                  <<SRC, README_TXT>>, <<TARGET, IGNORED_RS>>,
                  <<NODE_MODULES, PKG, INDEX_JS>>, <<SRC, DOT_GIT, MAIN_RS>> }}

PresetTrees ==
    {t \in SUBSET PresetUniverse : Cardinality(t) <= MaxFiles} \cup {RustTree}

InitPreset ==
    /\ fs \in {[f \in t |-> NoText] : t \in PresetTrees}
    /\ call = NoCall
    /\ ret = NoCall
    /\ IdleRun

CollectFromPresetCall ==
    /\ call = NoCall
    /\ \E preset \in Presets :
          /\ call' = [op |-> "collect_from_preset", name |-> RUST, preset |-> preset]
          /\ ret' = collect_from_preset(fs, RUST, preset, RepoRoot)
    /\ UNCHANGED <<fs, RunVars>>

NextPreset == CollectFromPresetCall

SpecPreset == InitPreset /\ [][NextPreset]_vars

(***************************************************************************)
(* Claims about the Preset Collector (SpecPreset).                         *)
(***************************************************************************)
PresetCall == call.op = "collect_from_preset"

\* the effective base of the call's preset
EffectiveBase ==
    IF call.preset.base = <<>> THEN RepoRoot
    ELSE IF call.preset.base[1].absolute THEN call.preset.base[1].path
    ELSE Join(RepoRoot, call.preset.base[1].path)

\* the file lies inside a directory with an ignored name, at any depth
\* under the base
InsideIgnored(base, g) ==
    \E k \in (Len(base) + 1)..(Len(g) - 1) : g[k] \in Range(IGNORED_DIRS)

\* the regular files the i-th include pattern of the call's preset selects:
\* under the base, matching the pattern, outside the ignored directories,
\* matching no exclude pattern by their path relative to the base
Selected(i) ==
    LET base == EffectiveBase
    IN  {g \in DOMAIN fs :
           /\ IsPrefix(base, g) /\ g # base
           /\ GlobMatch(OverrideGlob(call.preset.include[i]).glob, 1,
                        PathString(SubSeq(g, Len(base) + 1, Len(g))), 1, TRUE)
           /\ ~InsideIgnored(base, g)
           /\ \A k \in 1..Len(call.preset.exclude) :
                 ~GlobMatch(call.preset.exclude[k], 1,
                            PathString(SubSeq(g, Len(base) + 1, Len(g))), 1, FALSE)}

PatternIndexes == 1..Len(call.preset.include)

FirstPattern(g) == MinOf({i \in PatternIndexes : g \in Selected(i)})

\* g stands before h in first-match order: pattern order, then the sorted
\* order within a pattern
FirstMatchBefore(g, h) ==
    \/ FirstPattern(g) < FirstPattern(h)
    \/ FirstPattern(g) = FirstPattern(h) /\ ComponentwiseLess(g, h)

FirstMatchOrdered(fl) ==
    \A i, j \in 1..Len(fl) : i < j => FirstMatchBefore(fl[i], fl[j])

NoDuplicates(fl) == \A i, j \in 1..Len(fl) : fl[i] = fl[j] => i = j

\* C3 as claimed: the File Set of collect_from_preset holds each path once,
\* in first-match order (include-pattern order, then sorted order within a
\* pattern), for every preset.
C3_FirstMatchOrder ==
    (PresetCall /\ ret.ok) =>
        /\ NoDuplicates(ret.files)
        /\ FirstMatchOrdered(ret.files)

\* C3 amended: the File Set of collect_from_preset holds each path once, in
\* first-match order, except that README promotion moves one README to
\* position 0: the entries after a promoted README are in first-match order.
C3_FirstMatchOrderAfterPromotion ==
    (PresetCall /\ ret.ok) =>
        /\ NoDuplicates(ret.files)
        /\ \/ FirstMatchOrdered(ret.files)
           \/ /\ NamedReadme(ret.files[1])
              /\ FirstMatchOrdered(Tail(ret.files))
        /\ HasReadme(ret.files) => NamedReadme(ret.files[1])

\* C3 witness: the second include pattern selects a strict, non-empty subset
\* of what the first selects, and a README was promoted out of its
\* first-match position
C3_Witness ==
    /\ PresetCall
    /\ ret.ok
    /\ Len(call.preset.include) = 2
    /\ Selected(2) # {}
    /\ Selected(2) \subseteq Selected(1)
    /\ Selected(2) # Selected(1)
    /\ Len(ret.files) = Cardinality(Selected(1))
    /\ ~FirstMatchOrdered(ret.files)

\* C7: no path returned by collect_from_preset lies inside a directory with
\* an ignored name at any depth under the effective base, also for the
\* include pattern "**/*"; with that pattern and no exclude every file
\* outside the ignored directories is returned.
C7_NoIgnoredDirectory ==
    (PresetCall /\ ret.ok) =>
        /\ \A i \in 1..Len(ret.files) : ~InsideIgnored(EffectiveBase, ret.files[i])
        /\ (P_ALL \in Range(call.preset.include) /\ call.preset.exclude = <<>>)
              => \A g \in DOMAIN fs :
                    (IsPrefix(EffectiveBase, g) /\ ~InsideIgnored(EffectiveBase, g))
                        => g \in Range(ret.files)

\* C7 witness: "**/*" over a tree with a file in target/ or node_modules/
\* or .git/ and a file outside
C7_Witness ==
    /\ PresetCall
    /\ ret.ok
    /\ call.preset.include = <<P_ALL>>
    /\ \E g \in DOMAIN fs : IsPrefix(EffectiveBase, g) /\ InsideIgnored(EffectiveBase, g)
    /\ Len(ret.files) >= 1

\* the first include pattern, in configuration order, that selects no file
EmptyPatterns == {i \in PatternIndexes : Selected(i) = {}}

\* C8 as claimed: collect_from_preset fails with PatternMatchedNothing,
\* naming the preset and the pattern, as soon as one include pattern has no
\* file left after the ignore-directory and exclude filtering.
C8_PatternMatchedNothing ==
    (PresetCall /\ EmptyPatterns # {}) =>
        /\ ~ret.ok
        /\ ret.error = "PatternMatchedNothing"
        /\ ret.pattern = call.preset.include[MinOf(EmptyPatterns)]
        /\ ret.preset = call.name

\* C8 amended: when the effective base exists, collect_from_preset fails
\* with PatternMatchedNothing, naming the preset and the first include
\* pattern that has no file left after the filtering; when the effective
\* base does not exist it fails with the I/O error of the directory walk;
\* it succeeds only when every include pattern has a file left.
C8_PatternMatchedNothingUnderBase ==
    PresetCall =>
        IF EmptyPatterns = {} THEN ret.ok
        ELSE /\ ~ret.ok
             /\ ret.preset = call.name
             /\ IF Exists(fs, EffectiveBase)
                THEN /\ ret.error = "PatternMatchedNothing"
                     /\ ret.pattern = call.preset.include[MinOf(EmptyPatterns)]
                ELSE ret.error = "WalkError"

\* C8 witness: the first include pattern keeps files, every match of the
\* second is removed by an exclude pattern, and the call fails naming the
\* second
C8_Witness ==
    /\ PresetCall
    /\ Len(call.preset.include) = 2
    /\ Selected(1) # {}
    /\ \E g \in DOMAIN fs :
          /\ IsPrefix(EffectiveBase, g)
          /\ GlobMatch(OverrideGlob(call.preset.include[2]).glob, 1,
                       PathString(StripPrefix(EffectiveBase, g)), 1, TRUE)
          /\ ~InsideIgnored(EffectiveBase, g)
    /\ Selected(2) = {}
    /\ ~ret.ok
    /\ ret.error = "PatternMatchedNothing"
    /\ ret.pattern = call.preset.include[2]

\* C9: a file is in the File Set of collect_from_preset exactly when it is a
\* regular file under the effective base that matches an include pattern,
\* is in no ignored directory and matches no exclude pattern by its path
\* relative to the base; preset rust (base ".", include src/**/*.rs, exclude
\* src/lib.rs) over README.md, src/lib.rs, src/main.rs, src/extra.txt gives
\* exactly [src/main.rs].
C9_PresetSelection ==
    /\ (PresetCall /\ ret.ok) =>
          Range(ret.files) = UNION {Selected(i) : i \in PatternIndexes}
    /\ (PresetCall /\ DOMAIN fs = RustTree /\ call.preset = RustPreset) =>
          ret = [ok |-> TRUE, files |-> <<Join(RepoRoot, <<SRC, MAIN_RS>>)>>]

\* C9 witness: the rust preset was collected over the tree of the scenario
C9_Witness ==
    /\ PresetCall
    /\ DOMAIN fs = RustTree
    /\ call.preset = RustPreset
    /\ ret.ok

(***************************************************************************)
(* Calls of the renderer (SpecRender).                                     *)
(***************************************************************************)
\* the longest contents of a rendered file
MaxContent == 2

\* a two-byte, a three-byte and a four-byte scalar value
E_ACUTE == 233
EURO == 8364
EMOJI == 128512

TextAlphabet == {Ord("a"), LF, E_ACUTE, EMOJI}

RECURSIVE TextsUpTo(_)
TextsUpTo(n) ==
    IF n = 0 THEN {<<>>}
    ELSE LET shorter == TextsUpTo(n - 1)
         IN  shorter \cup {Append(t, c) : t \in {u \in shorter : Len(u) = n - 1}, c \in TextAlphabet}

Contents == {Text(t) : t \in TextsUpTo(MaxContent)} \cup {NotUtf8}

\* a file at the root and a file with a multi-byte name in a directory
RenderUniverse ==
    {Join(RepoRoot, <<README_MD>>), Join(RepoRoot, <<SRC, <<E_ACUTE, EURO>> \o Str(<<".", "r", "s">>)>>)}

InitRender ==
    /\ fs \in UNION {[t -> Contents] : t \in SUBSET RenderUniverse}
    /\ call = NoCall
    /\ ret = NoCall
    /\ IdleRun

\* render_files on any File Set over the files of the model, present or not
RenderFilesCall ==
    /\ call = NoCall
    /\ \E S \in SUBSET RenderUniverse :
         \E fl \in Enumerations(S) :
            /\ call' = [op |-> "render_files", files |-> fl, root |-> RepoRoot]
            /\ ret' = render_files(fs, fl, RepoRoot)
    /\ UNCHANGED <<fs, RunVars>>

NextRender == RenderFilesCall

SpecRender == InitRender /\ [][NextRender]_vars

\* C10: whenever render_files succeeds, the unit count it returns is the
\* number of Unicode scalar values of the text it returns, not its number
\* of bytes, also with multi-byte characters in display names and contents,
\* with empty contents, and with or without a trailing newline.
C10_CountIsScalarCount ==
    (call.op = "render_files" /\ ret.ok) => ret.count = Len(ret.text)

\* C10 witness: two files rendered, one with a multi-byte name and contents
\* that hold a multi-byte character and end without a newline, the other
\* empty, so that the text has more bytes than scalar values
C10_Witness ==
    /\ call.op = "render_files"
    /\ ret.ok
    /\ Len(call.files) = 2
    /\ \E p \in Range(call.files) :
          /\ \E k \in 1..Len(FileName(p)) : FileName(p)[k] >= 128
          /\ \E k \in 1..Len(fs[p].text) : fs[p].text[k] >= 128
          /\ fs[p].text[Len(fs[p].text)] # LF
    /\ \E p \in Range(call.files) : fs[p].text = <<>>
    /\ ByteLen(ret.text) > ret.count

\* the section of one file as the format describes it: the delimiter line,
\* the header line, a blank line, the contents, a newline if the contents do
\* not end in one, and one more newline
EndsInNewline(contents) == Len(contents) > 0 /\ contents[Len(contents)] = LF

SectionOf(display, contents) ==
    Str(<<"-", "-", "-", "-", "-", "-", "-", "\n">>) \o Str(<<"#", " ">>) \o display
        \o <<LF>> \o <<LF>> \o contents
        \o (IF EndsInNewline(contents) THEN <<>> ELSE <<LF>>) \o <<LF>>

\* the sections of the files from the i-th on, one after the other
RECURSIVE SectionsFrom(_, _)
SectionsFrom(fl, i) ==
    IF i > Len(fl) THEN <<>>
    ELSE SectionOf(display_path(fl[i], RepoRoot), fs[fl[i]].text) \o SectionsFrom(fl, i + 1)

\* C11: the text render_files returns is the concatenation, in File Set
\* order, of one section per file ('-------\n# <display-name>\n\n<contents>',
\* one inserted newline only if the contents do not end in one, one more
\* newline), with nothing before, between or after the sections; contents
\* that end in a newline are reproduced with no second newline of their own.
C11_TextIsSections ==
    (call.op = "render_files" /\ ret.ok) => ret.text = SectionsFrom(call.files, 1)

\* C11 witness: two files rendered, the first with contents that end in a
\* newline, the second with contents that do not
C11_Witness ==
    /\ call.op = "render_files"
    /\ ret.ok
    /\ Len(call.files) = 2
    /\ Len(fs[call.files[1]].text) = 2
    /\ EndsInNewline(fs[call.files[1]].text)
    /\ fs[call.files[2]].text # <<>>
    /\ ~EndsInNewline(fs[call.files[2]].text)
    /\ ret.text # <<>>

(***************************************************************************)
(* Target resolution and the gather command (main.rs, config.rs).          *)
(***************************************************************************)
\* Path::new(argument): the components between the '/' of the string
RECURSIVE Components(_, _)
Components(str, current) ==
    IF str = <<>> THEN (IF current = <<>> THEN <<>> ELSE <<current>>)
    ELSE IF Head(str) = SLASH
         THEN (IF current = <<>> THEN <<>> ELSE <<current>>) \o Components(Tail(str), <<>>)
         ELSE Components(Tail(str), Append(current, Head(str)))

PathNew(str) ==
    [absolute |-> Len(str) > 0 /\ str[1] = SLASH, path |-> Components(str, <<>>)]

parse_target_path(argument, repo_root) ==
    LET path == PathNew(argument)
    IN  IF path.absolute THEN path.path ELSE Join(repo_root, path.path)

\* Option<T>: None is <<>>, Some(x) is <<x>>
Some(x) == <<x>>

\* ConfigFile::preset: IndexMap::get
ConfigPreset(config, name) ==
    IF name \in DOMAIN config.presets THEN Some(config.presets[name]) ELSE <<>>

\* what determine_target returns: the File Set and the description, whose
\* first word names the branch taken ("root", "path" or "preset")
Resolved(result, kind, subject) ==
    IF result.ok THEN [ok |-> TRUE, files |-> result.files, kind |-> kind, subject |-> subject]
    ELSE [ok |-> FALSE, error |-> result.error, kind |-> kind, subject |-> subject]

\* determine_target with the preset looked up before the path is tried
determine_target_preset_first(f, target, repo_root, config, walked) ==
    IF target = <<>>
    THEN Resolved(collect_from_path(f, repo_root, walked), "root", repo_root)
    ELSE LET argument == target[1]
             path_candidate == parse_target_path(argument, repo_root)
         IN  IF config # <<>> /\ ConfigPreset(config[1], argument) # <<>>
             THEN Resolved(collect_from_preset(f, argument,
                               ConfigPreset(config[1], argument)[1], repo_root),
                           "preset", argument)
             ELSE IF Exists(f, path_candidate)
             THEN Resolved(collect_from_path(f, path_candidate, walked), "path", path_candidate)
             ELSE IF config = <<>> THEN Resolved(Err("ConfigMissing"), "none", argument)
             ELSE Resolved(Err("PresetNotFound"), "none", argument)

\* determine_target with the preset lookup reported for a configuration
\* that is not there
determine_target_lookup_only(f, target, repo_root, config, walked) ==
    IF target = <<>>
    THEN Resolved(collect_from_path(f, repo_root, walked), "root", repo_root)
    ELSE IF Exists(f, parse_target_path(target[1], repo_root))
    THEN Resolved(collect_from_path(f, parse_target_path(target[1], repo_root), walked),
                  "path", parse_target_path(target[1], repo_root))
    ELSE IF config = <<>> \/ ConfigPreset(config[1], target[1]) = <<>>
    THEN Resolved(Err("PresetNotFound"), "none", target[1])
    ELSE Resolved(collect_from_preset(f, target[1],
                      ConfigPreset(config[1], target[1])[1], repo_root),
                  "preset", target[1])

\* determine_target; walked is the order in which the Path Collector, if
\* it runs, finds the files enumerated
determine_target(f, target, repo_root, config, walked) ==
    IF target = <<>>
    THEN Resolved(collect_from_path(f, repo_root, walked), "root", repo_root)
    ELSE LET argument == target[1]
             path_candidate == parse_target_path(argument, repo_root)
         IN  IF Exists(f, path_candidate)
             THEN Resolved(collect_from_path(f, path_candidate, walked), "path", path_candidate)
             ELSE IF config = <<>> THEN Resolved(Err("ConfigMissing"), "none", argument)
             ELSE IF ConfigPreset(config[1], argument) = <<>>
             THEN Resolved(Err("PresetNotFound"), "none", argument)
             ELSE Resolved(collect_from_preset(f, argument,
                               ConfigPreset(config[1], argument)[1], repo_root),
                           "preset", argument)

\* the directory the Path Collector would walk for a target
WalkRoot(target, repo_root) ==
    IF target = <<>> THEN repo_root ELSE parse_target_path(target[1], repo_root)

(***************************************************************************)
(* The runs of the gather command (Spec): run() step by step.              *)
(***************************************************************************)
BAD == Str(<<"b", "a", "d">>)
ARG_SRC_MAIN == Str(<<"s", "r", "c", "/", "m", "a", "i", "n", ".", "r", "s">>)
ARG_ABS_SRC == Str(<<"/", "r", "e", "p", "o", "/", "s", "r", "c">>)

\* the arguments of the command line: none, directories, a file, an absolute
\* path, preset names and a name that is neither
Targets ==
    {<<>>, Some(SRC), Some(ARG_SRC_MAIN), Some(ARG_ABS_SRC), Some(RUST),
     Some(BAD), Some(DOCS), Some(MISSING)}

\* the configurations: none, and one whose presets are named like a
\* directory (src), like nothing in the tree (rust, docs), and one whose
\* glob does not compile (bad)
TheConfig ==
    [presets |->
        [n \in {SRC, RUST, DOCS, BAD} |->
            IF n = SRC THEN [base |-> NoBase, include |-> <<P_README_MD>>, exclude |-> <<>>]
            ELSE IF n = RUST THEN [base |-> NoBase, include |-> <<P_README_MD, P_ANY_RS>>,
                                   exclude |-> <<P_SRC_LIB_RS>>]
            ELSE IF n = DOCS THEN [base |-> SomeBase(Rel(<<SRC>>)), include |-> <<P_ALL>>,
                                   exclude |-> <<>>]
            ELSE [base |-> NoBase, include |-> <<P_README_MD, P_UNCLOSED>>, exclude |-> <<>>]]]

Configs == {<<>>, Some(TheConfig)}

RunUniverse ==
    {Join(RepoRoot, rel) :
        rel \in {<<README_MD>>, <<SRC, MAIN_RS>>, <<SRC, LIB_RS>>, <<A_TXT>>, <<DOCS>>}}

RunContents == {Text(Str(<<"a">>)), Text(Str(<<"a", "\n">>)), NotUtf8}

Init ==
    /\ fs \in UNION {[t -> RunContents] :
                        t \in {u \in SUBSET RunUniverse : Cardinality(u) <= MaxFiles}}
    /\ call = NoCall
    /\ ret = NoCall
    /\ IdleRun

\* run() up to determine_target: the command line and the configuration
RunStart ==
    /\ pc = "idle"
    /\ \E target \in Targets, config \in Configs :
          call' = [op |-> "run", target |-> target, config |-> config]
    /\ pc' = "determine_target"
    /\ UNCHANGED <<fs, ret, files, file_idx, output, char_count, sink, outcome>>

\* determine_target(...)?, and the return when no file was found
RunDetermineTarget ==
    /\ pc = "determine_target"
    /\ \E walked \in Enumerations(WalkFiltered(fs, WalkRoot(call.target, RepoRoot))) :
          ret' = determine_target(fs, call.target, RepoRoot, call.config, walked)
    /\ IF ~ret'.ok
       THEN /\ pc' = "failed"
            /\ outcome' = ret'.error
            /\ files' = files
       ELSE IF ret'.files = <<>>
       THEN /\ pc' = "done"
            /\ outcome' = "no_files"
            /\ files' = files
       ELSE /\ pc' = "render"
            /\ outcome' = outcome
            /\ files' = ret'.files
    /\ UNCHANGED <<fs, call, file_idx, output, char_count, sink>>

\* the loop of render_files as a best-effort render: a file that cannot be
\* read is skipped
RunRenderFileBestEffort ==
    /\ pc = "render"
    /\ file_idx <= Len(files)
    /\ IF ~Readable(fs, files[file_idx])
       THEN /\ file_idx' = file_idx + 1
            /\ UNCHANGED <<pc, outcome, output, char_count>>
       ELSE LET sec == append_file_section(output, display_path(files[file_idx], RepoRoot),
                                           fs[files[file_idx]].text)
            IN  /\ output' = sec.output
                /\ char_count' = char_count + sec.count
                /\ file_idx' = file_idx + 1
                /\ UNCHANGED <<pc, outcome>>
    /\ UNCHANGED <<fs, call, ret, files, sink>>

\* one round of the loop of render_files(&files, &repo_root)?
RunRenderFile ==
    /\ pc = "render"
    /\ file_idx <= Len(files)
    /\ IF ~Readable(fs, files[file_idx])
       THEN /\ pc' = "failed"
            /\ outcome' = "ReadError"
            /\ UNCHANGED <<file_idx, output, char_count>>
       ELSE LET sec == append_file_section(output, display_path(files[file_idx], RepoRoot),
                                           fs[files[file_idx]].text)
            IN  /\ output' = sec.output
                /\ char_count' = char_count + sec.count
                /\ file_idx' = file_idx + 1
                /\ UNCHANGED <<pc, outcome>>
    /\ UNCHANGED <<fs, call, ret, files, sink>>

\* render_files returns Ok((output, char_count))
RunRendered ==
    /\ pc = "render"
    /\ file_idx > Len(files)
    /\ pc' = "copy"
    /\ UNCHANGED <<fs, call, ret, files, file_idx, output, char_count, sink, outcome>>

\* clipboard::copy_to_clipboard(&rendered)?: the text is handed to the
\* sink, which takes it or fails
RunCopy ==
    /\ pc = "copy"
    /\ sink' = Append(sink, output)
    /\ \E copied \in BOOLEAN :
          IF copied THEN pc' = "done" /\ outcome' = "copied"
          ELSE pc' = "failed" /\ outcome' = "ClipboardError"
    /\ UNCHANGED <<fs, call, ret, files, file_idx, output, char_count>>

Next == RunStart \/ RunDetermineTarget \/ RunRenderFile \/ RunRendered \/ RunCopy

Spec == Init /\ [][Next]_vars

(***************************************************************************)
(* Claims about target resolution and the run (Spec).                      *)
(***************************************************************************)
\* determine_target has returned in this run
Resolution == call.op = "run" /\ pc \notin {"idle", "determine_target"}

\* the argument read as a path: absolute as it is, relative under the root
ArgumentPath ==
    LET arg == call.target[1]
    IN  IF arg[1] = SLASH THEN Components(arg, <<>>)
        ELSE RepoRoot \o Components(arg, <<>>)

\* what the Path Collector returns for a path of the tree
PathCollected(path) ==
    collect_from_path(fs, path, AnyOrder(WalkFiltered(fs, path)))

\* C1: if the argument, read as a path, exists, determine_target runs the
\* Path Collector on it, whatever the configuration, also when a preset has
\* the argument's name; the Preset Collector runs only when the path does
\* not exist; without an argument the Path Collector runs on the base
\* directory.
C1_PathBeforePreset ==
    Resolution =>
        /\ call.target = <<>> =>
              /\ ret.kind = "root"
              /\ ret.subject = RepoRoot
              /\ ret.ok /\ ret.files = PathCollected(RepoRoot).files
        /\ (call.target # <<>> /\ Exists(fs, ArgumentPath)) =>
              /\ ret.kind = "path"
              /\ ret.subject = ArgumentPath
              /\ ret.ok /\ ret.files = PathCollected(ArgumentPath).files
        /\ ret.kind = "preset" => (call.target # <<>> /\ ~Exists(fs, ArgumentPath))

\* C1 witness: the argument src names both a directory of the tree and a
\* preset of the configuration, and the Path Collector ran
C1_Witness ==
    /\ Resolution
    /\ call.target = <<SRC>>
    /\ call.config # <<>>
    /\ SRC \in DOMAIN call.config[1].presets
    /\ IsDir(fs, Join(RepoRoot, <<SRC>>))
    /\ ret.kind = "path"
    /\ ret.files # <<>>

\* the failures of target resolution, collection and rendering
FailureKinds ==
    {"TargetNotFound", "ConfigMissing", "PresetNotFound", "InvalidGlobPattern",
     "PatternMatchedNothing", "ReadError"}

AllReadable == \A i \in 1..Len(files) : fs[files[i]].utf8

\* C2: the sink is invoked only after target resolution, collection and
\* rendering have all succeeded, and then with the complete rendered text;
\* when a step fails (also the read of a later file) the run ends in an
\* error outcome with the sink never invoked.
C2_SinkOnlyAfterSuccess ==
    /\ sink # <<>> =>
          /\ Resolution /\ ret.ok /\ files = ret.files /\ files # <<>>
          /\ AllReadable
          /\ file_idx = Len(files) + 1
          /\ sink = <<output>>
          /\ render_files(fs, files, RepoRoot) =
                [ok |-> TRUE, text |-> output, count |-> char_count]
    /\ (Resolution /\ ~ret.ok) => (pc = "failed" /\ outcome = ret.error /\ sink = <<>>)
    /\ (Resolution /\ ret.ok /\ ret.files # <<>> /\ ~AllReadable) =>
          /\ pc \in {"render", "failed"}
          /\ pc = "failed" => outcome = "ReadError"
          /\ sink = <<>>
    /\ outcome \in FailureKinds => (pc = "failed" /\ sink = <<>>)

\* C2 witness: the read of a later file failed after a section had been
\* rendered, and the sink was not invoked
C2_Witness ==
    /\ pc = "failed"
    /\ outcome = "ReadError"
    /\ file_idx >= 2
    /\ output # <<>>
    /\ sink = <<>>

\* the argument names no path of the tree
NoSuchPath == Resolution /\ call.target # <<>> /\ ~Exists(fs, ArgumentPath)

\* the presets of the run's configuration, none without a configuration
PresetNames == IF call.config = <<>> THEN {} ELSE DOMAIN call.config[1].presets

\* determine_target failed with this error, no collector ran, and the run
\* ended with no File Set
FailedWith(error) ==
    /\ ~ret.ok /\ ret.error = error /\ ret.kind = "none"
    /\ pc = "failed" /\ outcome = error
    /\ files = <<>> /\ sink = <<>>

\* C12: when the argument's path does not exist, determine_target fails
\* with ConfigMissing if there is no configuration, and with PresetNotFound
\* if the configuration has no preset of that name; in both cases no
\* collector runs and no File Set is returned; the Preset Collector runs
\* only when the preset exists, and then on that preset.
C12_ConfigMissingThenPresetNotFound ==
    /\ NoSuchPath =>
          /\ call.config = <<>> => FailedWith("ConfigMissing")
          /\ (call.config # <<>> /\ call.target[1] \notin PresetNames) =>
                FailedWith("PresetNotFound")
          /\ call.target[1] \in PresetNames =>
                /\ ret.kind = "preset"
                /\ ret = Resolved(collect_from_preset(fs, call.target[1],
                                      call.config[1].presets[call.target[1]], RepoRoot),
                                  "preset", call.target[1])
    /\ (Resolution /\ ret.kind = "preset") =>
          (NoSuchPath /\ call.target[1] \in PresetNames)
    /\ (Resolution /\ ~ret.ok /\ ret.error \in {"ConfigMissing", "PresetNotFound"}) =>
          (NoSuchPath /\ call.target[1] \notin PresetNames)

\* C12 witness: a configuration is there, its presets do not hold the
\* argument, the argument is no path of a tree that holds files, and the
\* run failed with PresetNotFound
C12_Witness ==
    /\ NoSuchPath
    /\ call.config # <<>>
    /\ call.target[1] \notin PresetNames
    /\ DOMAIN fs # {}
    /\ ~ret.ok
    /\ ret.error = "PresetNotFound"
    /\ pc = "failed"

(***************************************************************************)
(* The version comparison of the upgrade command (main.rs).  A u32 is      *)
(* held as its decimal numeral without leading zeros, and compared as      *)
(* numerals compare: by length, then digit by digit.                       *)
(***************************************************************************)
FULL_STOP == Ord(".")

\* str::split('.'): the parts between the dots, empty ones kept
RECURSIVE SplitDots(_, _)
SplitDots(str, current) ==
    IF str = <<>> THEN <<current>>
    ELSE IF Head(str) = FULL_STOP THEN <<current>> \o SplitDots(Tail(str), <<>>)
    ELSE SplitDots(Tail(str), Append(current, Head(str)))

IsDigit(c) == c >= Ord("0") /\ c <= Ord("9")

\* the numeral of the value of a string of digits: leading zeros dropped
RECURSIVE Numeral(_)
Numeral(digits) ==
    IF Len(digits) > 1 /\ Head(digits) = Ord("0") THEN Numeral(Tail(digits)) ELSE digits

\* a < b for two numerals
NumeralLess(a, b) == Len(a) < Len(b) \/ (Len(a) = Len(b) /\ BytesLess(a, b))

\* u32::MAX
U32_MAX == Str(<<"4", "2", "9", "4", "9", "6", "7", "2", "9", "5">>)

\* the digits of the source of a u32: one leading '+' is allowed
Unsigned(src) == IF Len(src) > 0 /\ src[1] = Ord("+") THEN Tail(src) ELSE src

\* str::parse::<u32>().ok(): None for an empty string, a character that
\* is no digit, or a value above u32::MAX
ParseU32(src) ==
    IF Unsigned(src) = <<>> THEN <<>>
    ELSE IF \E i \in 1..Len(Unsigned(src)) : ~IsDigit(Unsigned(src)[i]) THEN <<>>
    ELSE IF NumeralLess(U32_MAX, Numeral(Unsigned(src))) THEN <<>>
    ELSE <<Numeral(Unsigned(src))>>

\* the closure parse_version, on the parts of the split
ParseParts(parts) ==
    IF Len(parts) >= 3
    THEN (IF ParseU32(parts[1]) = <<>> \/ ParseU32(parts[2]) = <<>> \/ ParseU32(parts[3]) = <<>>
          THEN <<>>
          ELSE << <<ParseU32(parts[1])[1], ParseU32(parts[2])[1], ParseU32(parts[3])[1]>> >>)
    ELSE <<>>

parse_version(v) == ParseParts(SplitDots(v, <<>>))

\* l > c for two (u32, u32, u32)
TupleGreater(l, c) ==
    \/ NumeralLess(c[1], l[1])
    \/ l[1] = c[1] /\ NumeralLess(c[2], l[2])
    \/ l[1] = c[1] /\ l[2] = c[2] /\ NumeralLess(c[3], l[3])

\* the match of is_newer_version on the two parsed versions
NewerOf(l, c, latest, current) ==
    IF l # <<>> /\ c # <<>> THEN TupleGreater(l[1], c[1]) ELSE latest # current

is_newer_version(latest, current) ==
    NewerOf(parse_version(latest), parse_version(current), latest, current)

(***************************************************************************)
(* Calls of is_newer_version (SpecVersion).                                *)
(***************************************************************************)
\* the numbers of a version: one and two digits, and the two around u32::MAX
VersionNumbers ==
    {Str(<<"0">>), Str(<<"1">>), Str(<<"9">>), Str(<<"1", "0">>), U32_MAX,
     Str(<<"4", "2", "9", "4", "9", "6", "7", "2", "9", "6">>)}

\* major.minor.patch
VersionString(major, minor, patch) ==
    major \o <<FULL_STOP>> \o minor \o <<FULL_STOP>> \o patch

Versions ==
    {VersionString(a, b, c) : a \in {Str(<<"0">>), Str(<<"1">>)}, b \in VersionNumbers,
                              c \in VersionNumbers}

InitVersion ==
    /\ fs = [p \in {} |-> NoText]
    /\ call = NoCall
    /\ ret = NoCall
    /\ IdleRun

IsNewerVersionCall ==
    /\ call = NoCall
    /\ \E latest \in Versions, current \in Versions :
          /\ call' = [op |-> "is_newer_version", latest |-> latest, current |-> current]
          /\ ret' = [op |-> "is_newer_version", newer |-> is_newer_version(latest, current)]
    /\ UNCHANGED <<fs, RunVars>>

SpecVersion == InitVersion /\ [][IsNewerVersionCall]_vars

(***************************************************************************)
(* Claims about is_newer_version (SpecVersion).                            *)
(***************************************************************************)
\* the three numbers of a version written major.minor.patch
NumbersOf(version) ==
    [i \in 1..3 |-> Numeral(SplitDots(version, <<>>)[i])]

\* latest is strictly greater than current: major, then minor, then patch,
\* each compared as a number
StrictlyGreater(latest, current) ==
    \E k \in 1..3 :
        /\ \A i \in 1..(k - 1) : NumbersOf(latest)[i] = NumbersOf(current)[i]
        /\ NumeralLess(NumbersOf(current)[k], NumbersOf(latest)[k])

VersionCall == call.op = "is_newer_version"

\* C13: for two versions written as three dot-separated non-negative
\* integers, is_newer_version returns true exactly when latest is strictly
\* greater than current under numeric comparison of major, then minor, then
\* patch, and false when they are equal or latest is older.
C13_NewerIffStrictlyGreater ==
    VersionCall => (ret.newer <=> StrictlyGreater(call.latest, call.current))

\* every number of the call's versions is a u32
WithinU32 ==
    \A v \in {call.latest, call.current} :
        \A i \in 1..3 : ~NumeralLess(U32_MAX, NumbersOf(v)[i])

\* the comparison is the numeric one when every number is a u32
NewerIffStrictlyGreaterWithinU32 ==
    (VersionCall /\ WithinU32) =>
        (ret.newer <=> StrictlyGreater(call.latest, call.current))

\* both versions were parsed, and the result is that of a comparison where
\* digits count: 0.10.0 against 0.9.1
ComparedAsNumbers ==
    /\ VersionCall /\ WithinU32
    /\ call.latest = VersionString(Str(<<"0">>), Str(<<"1", "0">>), Str(<<"0">>))
    /\ call.current = VersionString(Str(<<"0">>), Str(<<"9">>), Str(<<"1">>))
    /\ ret.newer

====
